---- MODULE Spec2Model ----
(***************************************************************************)
(* InceptionTimeClassifier (sktime/utils/estimators/convert.py): the       *)
(* module import, the constructor, build_model, fit/_fit and               *)
(* _check_callbacks, over a heap of Python list objects and an allocator   *)
(* of object identities.                                                   *)
(***************************************************************************)
EXTENDS Integers, Sequences, FiniteSets, TLC

VARIABLES tf_available, module, self, heap, next_id, user, call, trace

vars == <<tf_available, module, self, heap, next_id, user, call, trace>>

\* ---------------------------------------------------------------- bounds
MaxCalls == 2
MaxCells == 2
MaxUserCallbacks == 2

\* ------------------------------------------------------- Python values
\* None is the empty tuple, any other value v is held as <<v>>; an attribute
\* that was never assigned reads as None.
None == <<>>

Some(v) == <<v>>

Min(a, b) == IF a <= b THEN a ELSE b

\* ------------------------------------------------------------ callbacks
\* keras.callbacks.ReduceLROnPlateau(monitor="loss", factor=0.5, patience=50,
\* min_lr=1e-4), the object created at lines 132-134, with identity id.
DefaultReduceLROnPlateau(id) ==
    [id |-> id, cls |-> "ReduceLROnPlateau",
     cfg |-> [monitor |-> "loss", factor |-> "0.5", patience |-> 50, min_lr |-> "1e-4"]]

\* The callbacks a caller may put in the callbacks argument (documented at
\* line 27 as a list of keras callback objects): one that is a
\* ReduceLROnPlateau with the caller's own configuration, one that is not.
UserCallbackKinds ==
    { [cls |-> "ReduceLROnPlateau",
       cfg |-> [monitor |-> "val_loss", factor |-> "0.1", patience |-> 10, min_lr |-> "1e-6"]],
      [cls |-> "EarlyStopping",
       cfg |-> [monitor |-> "loss", factor |-> "n/a", patience |-> 5, min_lr |-> "n/a"]] }

\* isinstance(cb, keras.callbacks.ReduceLROnPlateau), line 130
isinstance_ReduceLROnPlateau(cb) == cb.cls = "ReduceLROnPlateau"

\* any(isinstance(cb, ReduceLROnPlateau) for cb in callbacks), line 130
any_ReduceLROnPlateau(l) == \E i \in 1..Len(l) : isinstance_ReduceLROnPlateau(l[i])

\* What a callback is apart from its identity: its class and configuration.
Config(cb) == [cls |-> cb.cls, cfg |-> cb.cfg]

Configs(l) == [i \in 1..Len(l) |-> Config(l[i])]

PlateauCount(l) == Cardinality({i \in 1..Len(l) : isinstance_ReduceLROnPlateau(l[i])})

\* copy.deepcopy of a list of callbacks (line 122): a new list of new
\* objects, identities nid, nid+1, ..., each with the class and
\* configuration of the object it copies.
deepcopy(l, nid) ==
    [i \in 1..Len(l) |-> [id |-> nid + i - 1, cls |-> l[i].cls, cfg |-> l[i].cfg]]

\* _check_callbacks (lines 126-136). h is the heap of list objects, callbacks
\* the argument (None or the reference of a list), nid the next free
\* identity.  Returns the heap after the call, the reference returned and the
\* next free identity.  A None argument makes a new list (line 129); a list
\* argument is appended to in place (line 131).
CheckCallbacksAlwaysAppend(h, callbacks, nid) ==
    LET ref  == IF callbacks = None THEN nid ELSE callbacks[1]
        nid1 == IF callbacks = None THEN nid + 1 ELSE nid
        h1   == IF callbacks = None THEN h @@ (ref :> <<>>) ELSE h
    IN  [heap |-> [h1 EXCEPT ![ref] = Append(@, DefaultReduceLROnPlateau(nid1))],
         list |-> ref, next_id |-> nid1 + 1]

CheckCallbacksPrepend(h, callbacks, nid) ==
    LET ref  == IF callbacks = None THEN nid ELSE callbacks[1]
        nid1 == IF callbacks = None THEN nid + 1 ELSE nid
        h1   == IF callbacks = None THEN h @@ (ref :> <<>>) ELSE h
    IN  IF ~any_ReduceLROnPlateau(h1[ref])
        THEN [heap |-> [h1 EXCEPT ![ref] = <<DefaultReduceLROnPlateau(nid1)>> \o @],
              list |-> ref, next_id |-> nid1 + 1]
        ELSE [heap |-> h1, list |-> ref, next_id |-> nid1]

CheckCallbacksReplace(h, callbacks, nid) ==
    LET ref  == IF callbacks = None THEN nid ELSE callbacks[1]
        nid1 == IF callbacks = None THEN nid + 1 ELSE nid
        h1   == IF callbacks = None THEN h @@ (ref :> <<>>) ELSE h
    IN  [heap |-> [h1 EXCEPT ![ref] =
                      SelectSeq(@, LAMBDA cb : ~isinstance_ReduceLROnPlateau(cb))
                      \o <<DefaultReduceLROnPlateau(nid1)>>],
         list |-> ref, next_id |-> nid1 + 1]

_check_callbacks(h, callbacks, nid) ==
    LET ref  == IF callbacks = None THEN nid ELSE callbacks[1]
        nid1 == IF callbacks = None THEN nid + 1 ELSE nid
        h1   == IF callbacks = None THEN h @@ (ref :> <<>>) ELSE h
    IN  IF ~any_ReduceLROnPlateau(h1[ref])
        THEN [heap |-> [h1 EXCEPT ![ref] = Append(@, DefaultReduceLROnPlateau(nid1))],
              list |-> ref, next_id |-> nid1 + 1]
        ELSE [heap |-> h1, list |-> ref, next_id |-> nid1]

\* ------------------------------------------------------------ arguments
\* The keyword defaults of __init__ (lines 53-65), callbacks apart.
Defaults ==
    [n_epochs |-> 1500, batch_size |-> 64, kernel_size |-> 40, n_filters |-> 32,
     use_residual |-> TRUE, use_bottleneck |-> TRUE, bottleneck_size |-> 32,
     depth |-> 6, random_state |-> None, verbose |-> FALSE,
     loss |-> "categorical_crossentropy", metrics |-> None]

\* get_test_params (lines 138-143): the list [param1, param2]
get_test_params ==
    << [n_epochs |-> 10, batch_size |-> 4], [n_epochs |-> 12, batch_size |-> 6] >>

\* The keyword arguments a caller constructs with: each test parameter set,
\* no keyword at all, and one that sets the remaining kinds of argument
\* (an empty metrics list, a seed, verbose output, other sizes).
OtherKwargs ==
    [kernel_size |-> 3, bottleneck_size |-> 8, depth |-> 2, n_filters |-> 4,
     use_residual |-> FALSE, random_state |-> Some(0), verbose |-> TRUE,
     loss |-> "mse", metrics |-> Some(<<>>), n_epochs |-> 1, batch_size |-> 2]

MetricsKwargs == [metrics |-> Some(<<"mae", "accuracy">>)]

KwargSets == {get_test_params[1], get_test_params[2], <<>>, OtherKwargs, MetricsKwargs}

\* Python's binding of keyword arguments to the parameters of __init__.
Bind(kw) == [k \in DOMAIN Defaults |-> IF k \in DOMAIN kw THEN kw[k] ELSE Defaults[k]]

HyperNames ==
    {"n_epochs", "batch_size", "kernel_size", "n_filters", "use_residual",
     "use_bottleneck", "bottleneck_size", "depth", "loss", "metrics",
     "random_state", "verbose"}

\* ---------------------------------------------------------- construction
\* _check_dl_dependencies(severity="error"), line 67: TRUE when it raises,
\* which it does when the deep-learning framework is not available.
_check_dl_dependencies(available) == ~available

\* InceptionTimeNetwork(...), lines 83-91: the builder keeps the seven
\* arguments it is given.
InceptionTimeNetwork(n_filters, use_residual, use_bottleneck, bottleneck_size, depth, kernel_size, random_state) ==
    [n_filters |-> n_filters, use_residual |-> use_residual,
     use_bottleneck |-> use_bottleneck, bottleneck_size |-> bottleneck_size,
     depth |-> depth, kernel_size |-> kernel_size, random_state |-> random_state]

\* __init__ (lines 51-91).  a: the bound keyword arguments other than
\* callbacks; callbacks: None or the reference of the caller's list.
\* Returns whether it raised and, if not, the attributes of the instance.
\* model_, history, input_shape and n_classes_ are not assigned here.
InitNetworkSwapsSizes(a, callbacks, available) ==
    IF _check_dl_dependencies(available)
    THEN [raised |-> TRUE, self |-> None]
    ELSE [raised |-> FALSE,
          self |-> Some(
            [n_epochs |-> a.n_epochs, batch_size |-> a.batch_size,
             kernel_size |-> a.kernel_size, n_filters |-> a.n_filters,
             use_residual |-> a.use_residual, use_bottleneck |-> a.use_bottleneck,
             bottleneck_size |-> a.bottleneck_size, depth |-> a.depth,
             callbacks |-> callbacks, random_state |-> a.random_state,
             verbose |-> a.verbose, loss |-> a.loss,
             metrics |-> IF a.metrics = None \/ a.metrics[1] = <<>>
                         THEN <<"accuracy">> ELSE a.metrics[1],
             _network |-> InceptionTimeNetwork(a.n_filters, a.use_residual,
                              a.use_bottleneck, a.kernel_size, a.depth,
                              a.bottleneck_size, a.random_state),
             n_classes_ |-> None, input_shape |-> None,
             model_ |-> None, history |-> None])]

__init__(a, callbacks, available) ==
    IF _check_dl_dependencies(available)
    THEN [raised |-> TRUE, self |-> None]
    ELSE [raised |-> FALSE,
          self |-> Some(
            [n_epochs |-> a.n_epochs, batch_size |-> a.batch_size,
             kernel_size |-> a.kernel_size, n_filters |-> a.n_filters,
             use_residual |-> a.use_residual, use_bottleneck |-> a.use_bottleneck,
             bottleneck_size |-> a.bottleneck_size, depth |-> a.depth,
             callbacks |-> callbacks, random_state |-> a.random_state,
             verbose |-> a.verbose, loss |-> a.loss,
             metrics |-> IF a.metrics = None \/ a.metrics[1] = <<>>
                         THEN <<"accuracy">> ELSE a.metrics[1],
             _network |-> InceptionTimeNetwork(a.n_filters, a.use_residual,
                              a.use_bottleneck, a.bottleneck_size, a.depth,
                              a.kernel_size, a.random_state),
             n_classes_ |-> None, input_shape |-> None,
             model_ |-> None, history |-> None])]

\* ------------------------------------------------------------ the data
\* X is a 3D array indexed [instance][channel][timepoint]; every cell holds
\* its own index triple, so that any permutation of axes or cells shows.
Panel(n, c, t) == [i \in 1..n |-> [j \in 1..c |-> [k \in 1..t |-> <<i, j, k>>]]]

\* X.shape of a 3D array with at least one instance and one channel
Shape(X) == <<Len(X), Len(X[1]), Len(X[1][1])>>

\* X.transpose(0, 2, 1), line 108
TransposeIdentity(X) == X

Transpose021(X) ==
    [i \in 1..Len(X) |-> [k \in 1..Len(X[i][1]) |-> [j \in 1..Len(X[i]) |-> X[i][j][k]]]]

\* The shapes (n_instances, n_channels, n_timepoints) of the arrays a caller
\* passes: every shape of at most MaxCells cells.
Shapes ==
    { sh \in (1..MaxCells) \X (1..MaxCells) \X (1..MaxCells) : sh[1] * sh[2] * sh[3] <= MaxCells }

\* The input_shape values a caller passes to build_model: X.shape[1:] of the
\* transposed one-instance arrays, (n_timepoints, n_channels).
InputShapes == { <<sh[3], sh[2]>> : sh \in {x \in Shapes : x[1] = 1} }

\* The label vectors a caller passes with n instances: the first instances
\* carry distinct labels 1..k, the rest repeat label k.
Labels(n) == { [i \in 1..n |-> Min(i, k)] : k \in 1..n }

Classes(y) == {y[i] : i \in 1..Len(y)}

\* n_classes_ as the base class sets it in fit, before _fit runs: the
\* number of distinct labels in y.
n_classes_of(y) == Cardinality(Classes(y))

\* _convert_y_to_keras(y), line 107: one indicator row per instance, one
\* column per class in increasing order of label.
_convert_y_to_keras(y) ==
    [i \in 1..Len(y) |->
        [k \in 1..Cardinality(Classes(y)) |->
            IF Cardinality({c \in Classes(y) : c <= y[i]}) = k THEN 1 ELSE 0]]

\* ------------------------------------------------------------ the model
\* build_model (lines 93-103): the network's input takes input_shape, a
\* Dense softmax layer of n_classes units is put on the network's output, and
\* the model is compiled with the instance's loss and metrics and a new Adam
\* optimizer.  id is the identity of the new model; it is untrained.
BuildModelDenseOfChannels(s, input_shape, n_classes, id) ==
    [id |-> id, input_shape |-> input_shape, network |-> s._network,
     n_outputs |-> input_shape[Len(input_shape)], activation |-> "softmax",
     loss |-> s.loss, optimizer |-> "Adam", metrics |-> s.metrics,
     epochs_trained |-> 0]

BuildModelCached(s, input_shape, n_classes, id) ==
    IF s.model_ # None /\ s.model_[1].input_shape = input_shape
                       /\ s.model_[1].n_outputs = n_classes
    THEN s.model_[1]
    ELSE [id |-> id, input_shape |-> input_shape, network |-> s._network,
          n_outputs |-> n_classes, activation |-> "softmax",
          loss |-> s.loss, optimizer |-> "Adam", metrics |-> s.metrics,
          epochs_trained |-> 0]

build_model(s, input_shape, n_classes, id) ==
    [id |-> id, input_shape |-> input_shape, network |-> s._network,
     n_outputs |-> n_classes, activation |-> "softmax",
     loss |-> s.loss, optimizer |-> "Adam", metrics |-> s.metrics,
     epochs_trained |-> 0]

\* self.model_.fit(X, y_onehot, batch_size=, epochs=, verbose=, callbacks=),
\* lines 116-123, when it returns: the model has been trained for the given
\* number of epochs more, and the History object returned (identity id)
\* records the model it trained and the epochs it ran.
model_fit(m, args, id) ==
    [model   |-> [m EXCEPT !.epochs_trained = @ + args.epochs],
     history |-> [id |-> id, model |-> m.id, epochs |-> args.epochs]]

\* ------------------------------------------------------------------ fit
\* The keyword arguments of the call of the training loop, lines 116-123.
FitArgs(s, m, Xt, y_onehot, callbacks) ==
    [model |-> m.id, X |-> Xt, y |-> y_onehot, batch_size |-> s.batch_size,
     epochs |-> s.n_epochs, verbose |-> s.verbose, callbacks |-> callbacks]

\* _fit (lines 105-124).  s: the attributes of self on entry, h: the heap of
\* lists, nid: the next free identity, raises: the call that raises, if any
\* ("build_model": the network collaborator fails inside build_model,
\* "model_fit": the framework's training loop fails).  An exception leaves
\* the assignments made before it.  model_.summary() (line 113) only prints.
\* Returns the attributes of self, the heap, the next free identity and the
\* arguments handed to the training loop (None if it was not reached).
FitBuildsBeforeShape(s, h, nid, X, y, raises) ==
    LET y_onehot == _convert_y_to_keras(y)
        Xt == Transpose021(X)
    IN  IF raises = "build_model"
        THEN [self |-> s, heap |-> h, next_id |-> nid, train |-> None]
        ELSE
          LET m  == build_model(s, Tail(Shape(Xt)), s.n_classes_[1], nid)
              s1 == [s EXCEPT !.model_ = Some(m)]
              s2 == [s1 EXCEPT !.input_shape = Some(Tail(Shape(Xt)))]
              cc == _check_callbacks(h, s2.callbacks, nid + 1)
              copied == deepcopy(cc.heap[cc.list], cc.next_id)
              hid == cc.next_id + Len(copied)
              args == FitArgs(s2, m, Xt, y_onehot, copied)
          IN  IF raises = "model_fit"
              THEN [self |-> s2, heap |-> cc.heap, next_id |-> hid, train |-> Some(args)]
              ELSE LET r == model_fit(m, args, hid)
                   IN  [self |-> [s2 EXCEPT !.model_ = Some(r.model),
                                            !.history = Some(r.history)],
                        heap |-> cc.heap, next_id |-> hid + 1, train |-> Some(args)]

_fit(s, h, nid, X, y, raises) ==
    LET y_onehot == _convert_y_to_keras(y)
        Xt == Transpose021(X)
        s1 == [s EXCEPT !.input_shape = Some(Tail(Shape(Xt)))]
    IN  IF raises = "build_model"
        THEN [self |-> s1, heap |-> h, next_id |-> nid, train |-> None]
        ELSE
          LET m  == build_model(s1, s1.input_shape[1], s1.n_classes_[1], nid)
              s2 == [s1 EXCEPT !.model_ = Some(m)]
              cc == _check_callbacks(h, s2.callbacks, nid + 1)
              copied == deepcopy(cc.heap[cc.list], cc.next_id)
              hid == cc.next_id + Len(copied)
              args == FitArgs(s2, m, Xt, y_onehot, copied)
          IN  IF raises = "model_fit"
              THEN [self |-> s2, heap |-> cc.heap, next_id |-> hid, train |-> Some(args)]
              ELSE LET r == model_fit(m, args, hid)
                   IN  [self |-> [s2 EXCEPT !.model_ = Some(r.model),
                                            !.history = Some(r.history)],
                        heap |-> cc.heap, next_id |-> hid + 1, train |-> Some(args)]

\* -------------------------------------------------------------- actions
\* call is the frame of the last call made on the class or the instance;
\* trace lists the build_model and fit calls made so far with their outcomes;
\* user is what the caller passed to the constructor.
NoCall == [op |-> "none", outcome |-> "none", first_id |-> 0, args |-> None, train |-> None, returned |-> None]

Raises == {"none", "build_model", "model_fit"}

\* The lists of callbacks a caller builds, as lists of kinds.
UserLists == UNION { [1..n -> UserCallbackKinds] : n \in 0..MaxUserCallbacks }

\* The caller's list object: its callbacks get identities nid+1, nid+2, ...
MakeList(kinds, nid) ==
    [i \in 1..Len(kinds) |-> [id |-> nid + i, cls |-> kinds[i].cls, cfg |-> kinds[i].cfg]]

Init ==
    /\ tf_available \in BOOLEAN
    /\ module = "unloaded"
    /\ self = None
    /\ heap = <<>>
    /\ next_id = 1
    /\ user = None
    /\ call = NoCall
    /\ trace = <<>>

\* Importing the module runs its top level (lines 1-9): "import tensorflow"
\* (line 8) raises when the framework is not installed, and then the class
\* statement (line 12) is never executed.
Import ==
    /\ module = "unloaded"
    /\ module' = IF tf_available THEN "loaded" ELSE "import_error"
    /\ UNCHANGED <<tf_available, self, heap, next_id, user, call, trace>>

\* InceptionTimeClassifier(**kw), without a callbacks argument
ConstructNoCallbacks(kw) ==
    /\ module = "loaded" /\ user = None
    /\ LET r == __init__(Bind(kw), None, tf_available)
       IN  /\ self' = r.self
           /\ call' = [NoCall EXCEPT !.op = "__init__", !.first_id = next_id,
                          !.outcome = IF r.raised THEN "raised" ELSE "returned"]
    /\ user' = Some([kw |-> Bind(kw), callbacks |-> None, value |-> <<>>])
    /\ UNCHANGED <<tf_available, module, heap, next_id, trace>>

\* InceptionTimeClassifier(callbacks=l, **kw), l a list the caller has built
\* (Next draws kw from the test parameter sets: no line of the class reads
\* callbacks together with another argument)
ConstructWithCallbacks(kw, kinds) ==
    /\ module = "loaded" /\ user = None
    /\ LET l == MakeList(kinds, next_id)
           r == __init__(Bind(kw), Some(next_id), tf_available)
       IN  /\ heap' = heap @@ (next_id :> l)
           /\ next_id' = next_id + Len(l) + 1
           /\ self' = r.self
           /\ call' = [NoCall EXCEPT !.op = "__init__", !.first_id = next_id,
                          !.outcome = IF r.raised THEN "raised" ELSE "returned"]
           /\ user' = Some([kw |-> Bind(kw), callbacks |-> Some(next_id), value |-> l])
    /\ UNCHANGED <<tf_available, module, trace>>

\* A call of build_model from outside fit: it returns the model to the
\* caller, or raises when the network collaborator fails; it assigns nothing.
BuildModelCall(input_shape, n_classes, raises) ==
    /\ self # None /\ Len(trace) < MaxCalls
    /\ trace' = Append(trace, <<"build_model", IF raises THEN "raised" ELSE "returned">>)
    /\ call' = [op |-> "build_model", first_id |-> next_id,
                outcome |-> IF raises THEN "raised" ELSE "returned",
                args |-> Some([input_shape |-> input_shape, n_classes |-> n_classes]),
                train |-> None,
                returned |-> IF raises THEN None
                             ELSE Some(build_model(self[1], input_shape, n_classes, next_id))]
    /\ next_id' = IF raises THEN next_id ELSE next_id + 1
    /\ UNCHANGED <<tf_available, module, self, heap, user>>

\* fit(X, y): the base class sets n_classes_ from y, then runs _fit.
Fit(X, y, raises) ==
    /\ self # None /\ Len(trace) < MaxCalls
    /\ trace' = Append(trace, <<"fit", IF raises = "none" THEN "returned" ELSE raises>>)
    /\ LET s0 == [self[1] EXCEPT !.n_classes_ = Some(n_classes_of(y))]
           r  == _fit(s0, heap, next_id, X, y, raises)
       IN  /\ self' = Some(r.self)
           /\ heap' = r.heap
           /\ next_id' = r.next_id
           /\ call' = [op |-> "fit", first_id |-> next_id,
                       outcome |-> IF raises = "none" THEN "returned" ELSE raises,
                       args |-> Some([X |-> X, y |-> y]),
                       train |-> r.train, returned |-> None]
    /\ UNCHANGED <<tf_available, module, user>>

Next ==
    \/ Import
    \/ \E kw \in KwargSets : ConstructNoCallbacks(kw)
    \/ \E p \in 1..2, kinds \in UserLists : ConstructWithCallbacks(get_test_params[p], kinds)
    \/ \E input_shape \in InputShapes, k \in 1..MaxCells, raises \in BOOLEAN :
          BuildModelCall(input_shape, k, raises)
    \/ \E sh \in Shapes, raises \in Raises :
          \E y \in Labels(sh[1]) : Fit(Panel(sh[1], sh[2], sh[3]), y, raises)

Spec == Init /\ [][Next]_vars

\* ------------------------------------------------------------ properties
S == self[1]

\* the callback list handed to the training loop in the last call
Handed == call.train[1].callbacks

\* the callbacks argument as it was when the constructor was called
UserValue == user[1].value

FitReturned == call.op = "fit" /\ call.outcome = "returned"

\* an earlier fit call on this instance reached the training loop
Refit == /\ Len(trace) >= 2
         /\ \E i \in 1..(Len(trace) - 1) :
               trace[i][1] = "fit" /\ trace[i][2] \in {"returned", "model_fit"}

\* the axes of the X given to the last fit call
NInstances == Len(call.args[1].X)

NChannels == Len(call.args[1].X[1])

NTimepoints == Len(call.args[1].X[1][1])

\* C1 as stated: the callback list handed to the training loop in a fit call
\* never holds more than one ReduceLROnPlateau callback.
C1_AtMostOnePlateau == call.train # None => PlateauCount(Handed) <= 1

\* C1, amended: the list handed to the training loop holds max(1, k)
\* ReduceLROnPlateau callbacks, k being the number of them in the callbacks
\* value given to the constructor (0 for None), in the first fit call and in
\* every later one: one when the caller gave none or one, the caller's own k
\* when the caller gave several.
C1_PlateauCountIsMaxOfOneAndUsers ==
    call.train # None =>
        PlateauCount(Handed) =
            IF PlateauCount(UserValue) = 0 THEN 1 ELSE PlateauCount(UserValue)

C1_Witness ==
    /\ call.train # None /\ Refit
    /\ user[1].callbacks # None /\ PlateauCount(UserValue) = 0
    /\ PlateauCount(Handed) = 1

\* C2: the list handed to the training loop holds at least one
\* ReduceLROnPlateau callback; when the constructor's callbacks value was None
\* or held none, the list is the caller's callbacks in their order followed
\* by one ReduceLROnPlateau(monitor="loss", factor=0.5, patience=50,
\* min_lr=1e-4).
C2_DefaultPlateauLast ==
    call.train # None =>
        /\ PlateauCount(Handed) >= 1
        /\ PlateauCount(UserValue) = 0 =>
              /\ Len(Handed) = Len(UserValue) + 1
              /\ \A i \in 1..Len(UserValue) : Config(Handed[i]) = Config(UserValue[i])
              /\ Handed[Len(Handed)].cls = "ReduceLROnPlateau"
              /\ Handed[Len(Handed)].cfg =
                    [monitor |-> "loss", factor |-> "0.5", patience |-> 50, min_lr |-> "1e-4"]

C2_Witness ==
    /\ call.train # None /\ Refit
    /\ Len(UserValue) = 2 /\ PlateauCount(UserValue) = 0
    /\ Len(Handed) = 3

\* C3: when the constructor's callbacks list holds a ReduceLROnPlateau
\* callback, the list handed to the training loop in every fit call has the
\* caller's callbacks, as many, in the same order, each with its class and
\* configuration.
C3_UserCallbacksHandedAsGiven ==
    (call.train # None /\ PlateauCount(UserValue) >= 1) =>
        /\ Len(Handed) = Len(UserValue)
        /\ \A i \in 1..Len(Handed) : Config(Handed[i]) = Config(UserValue[i])

C3_Witness ==
    /\ call.train # None /\ Refit
    /\ Len(UserValue) = 2 /\ PlateauCount(UserValue) = 1
    /\ Len(Handed) = 2

\* C4: after a fit call that returns, model_ is a model built during that
\* call, with that call's input shape and class count, trained for n_epochs
\* epochs and no more, and history is a record made during that call of the
\* training of that model.
C4_ModelReplacedOnRefit ==
    FitReturned =>
        /\ S.model_ # None /\ S.history # None
        /\ S.model_[1].id >= call.first_id
        /\ S.model_[1].input_shape = <<NTimepoints, NChannels>>
        /\ S.model_[1].n_outputs = Cardinality({call.args[1].y[i] : i \in 1..NInstances})
        /\ S.model_[1].epochs_trained = S.n_epochs
        /\ S.history[1].id >= call.first_id
        /\ S.history[1].model = S.model_[1].id
        /\ S.history[1].epochs = S.n_epochs
        /\ call.train[1].model = S.model_[1].id

C4_Witness ==
    /\ FitReturned
    /\ trace = << <<"fit", "returned">>, <<"fit", "returned">> >>
    /\ S.model_[1].id > 1

\* C5: the model held in model_ after a fit that returns ends in a softmax
\* layer with as many units as there are classes in the labels of that call
\* (n_classes_), and build_model(input_shape, n_classes) returns a model whose
\* softmax layer has n_classes units.
C5_OutputSizeIsClassCount ==
    /\ FitReturned =>
          /\ S.model_[1].n_outputs = Cardinality({call.args[1].y[i] : i \in 1..NInstances})
          /\ S.model_[1].n_outputs = S.n_classes_[1]
          /\ S.model_[1].activation = "softmax"
    /\ (call.op = "build_model" /\ call.outcome = "returned") =>
          /\ call.returned[1].n_outputs = call.args[1].n_classes
          /\ call.returned[1].activation = "softmax"

C5_Witness ==
    /\ FitReturned
    /\ \E p \in 1..2 : user[1].kw = Bind(get_test_params[p])
    /\ NInstances = 2 /\ S.model_[1].n_outputs = 2 /\ NChannels = 1

\* C6: once the instance is constructed, every hyperparameter it holds has
\* the value the constructor was given (metrics: ["accuracy"] when none or an
\* empty list was given), through every build_model and fit call, and the
\* network builder holds the instance's values of its seven arguments.
C6_HyperparametersImmutable ==
    self # None =>
        /\ \A k \in HyperNames \ {"metrics"} : S[k] = user[1].kw[k]
        /\ S.metrics = IF user[1].kw.metrics = None \/ user[1].kw.metrics[1] = <<>>
                       THEN <<"accuracy">> ELSE user[1].kw.metrics[1]
        /\ \A k \in DOMAIN S._network : S._network[k] = S[k]

C6_Witness ==
    /\ self # None
    /\ trace = << <<"build_model", "returned">>, <<"fit", "returned">> >>
    /\ user[1].kw.kernel_size # user[1].kw.bottleneck_size

\* C7: in a fit call on X of shape (n_instances, n_channels, n_timepoints),
\* input_shape becomes (n_timepoints, n_channels), the model is built with
\* that input shape, and the training loop receives the array whose cell
\* [i][t][c] is X[i][c][t], with the same n_instances.
C7_LastTwoAxesSwapped ==
    call.op = "fit" =>
        /\ S.input_shape = Some(<<NTimepoints, NChannels>>)
        /\ call.outcome # "build_model" =>
              /\ S.model_[1].input_shape = <<NTimepoints, NChannels>>
              /\ Len(call.train[1].X) = NInstances
              /\ \A i \in 1..NInstances :
                    /\ Len(call.train[1].X[i]) = NTimepoints
                    /\ \A t \in 1..NTimepoints :
                          /\ Len(call.train[1].X[i][t]) = NChannels
                          /\ \A c \in 1..NChannels :
                                call.train[1].X[i][t][c] = call.args[1].X[i][c][t]

C7_Witness ==
    /\ FitReturned
    /\ NInstances = 1 /\ NChannels = 1 /\ NTimepoints = 2
    /\ S.input_shape = Some(<<2, 1>>)

\* C8 as stated: when the framework is unavailable the failure is the
\* constructor's: the module can be loaded, and the error is raised by the
\* constructor call.
C8_ErrorRaisedAtConstruction ==
    (~tf_available /\ module # "unloaded") =>
        /\ module = "loaded"
        /\ user # None => (call.op = "__init__" /\ call.outcome = "raised" /\ self = None)

\* C9 as stated: the list given as the callbacks argument, and the callbacks
\* attribute, are after every fit call as they were at construction.
C9_UserListUnchanged ==
    (self # None /\ user[1].callbacks # None) =>
        /\ S.callbacks = user[1].callbacks
        /\ heap[user[1].callbacks[1]] = UserValue

\* C10 as stated: whichever calls returned or raised, history is the training
\* record of the current model_ and input_shape is the shape the current
\* model_ was built with.
C10_FittedAttributesFromOneCall ==
    self # None =>
        /\ S.history # None => (S.model_ # None /\ S.history[1].model = S.model_[1].id)
        /\ S.model_ # None => S.input_shape = Some(S.model_[1].input_shape)

\* C10, amended: after a fit call that returns, model_, history and
\* input_shape all stem from that call.  After a fit call in which
\* build_model raises, input_shape is that call's shape while model_ and
\* history, if set, are those of earlier calls; after a fit call in which the
\* training loop raises, input_shape and model_ are that call's while
\* history, if set, is that of an earlier call.
C10_FittedAttributesByOutcome ==
    call.op = "fit" =>
        /\ S.input_shape = Some(<<NTimepoints, NChannels>>)
        /\ call.outcome = "returned" =>
              /\ S.model_[1].id >= call.first_id
              /\ S.model_[1].input_shape = S.input_shape[1]
              /\ S.history[1].id >= call.first_id
              /\ S.history[1].model = S.model_[1].id
        /\ call.outcome = "build_model" =>
              /\ S.model_ # None => S.model_[1].id < call.first_id
              /\ S.history # None => S.history[1].id < call.first_id
        /\ call.outcome = "model_fit" =>
              /\ S.model_[1].id >= call.first_id
              /\ S.model_[1].input_shape = S.input_shape[1]
              /\ S.history # None =>
                    (S.history[1].id < call.first_id /\ S.history[1].model # S.model_[1].id)

C10_Witness ==
    /\ trace = << <<"fit", "returned">>, <<"fit", "build_model">> >>
    /\ S.model_ # None /\ S.history # None
    /\ S.input_shape # Some(S.model_[1].input_shape)

====
